---- MODULE Spec2Model ----
(***************************************************************************)
(* A model of MortalityTableGenerator (src/mortalite.py): the generator's  *)
(* two fields, its operations, and the completion / derivation engine the  *)
(* operations run on a pandas DataFrame.                                   *)
(*                                                                         *)
(* Numbers.  A cell is a pair <<n, d>>: the rational n/d in lowest terms   *)
(* with d > 0; <<0, 0>> is NaN (pandas' marker of an absent cell),         *)
(* <<1, 0>> and <<-1, 0>> are +inf and -inf.  The arithmetic is exact: the *)
(* model abstracts from the rounding of IEEE doubles, so "=" in a formula  *)
(* reads "equal up to floating-point rounding" on the program.             *)
(*                                                                         *)
(* Indices.  Rows and columns are numbered from 1 here and from 0 in the   *)
(* source: row i of the model is df.iloc[i - 1].                           *)
(***************************************************************************)
EXTENDS Integers, Sequences, FiniteSets, TLC

VARIABLES data, mortality_table, ret, call

vars == <<data, mortality_table, ret, call>>

(***************************************************************************)
(* Bounds of the model.                                                    *)
(***************************************************************************)
\* The longest table handed to the engine.
MaxRows == 3

(***************************************************************************)
(* Floating-point cells.                                                   *)
(***************************************************************************)
Abs(n) == IF n < 0 THEN -n ELSE n

Sign(n) == IF n < 0 THEN -1 ELSE IF n > 0 THEN 1 ELSE 0

RECURSIVE GCD(_, _)
GCD(a, b) == IF b = 0 THEN a ELSE GCD(b, a % b)

\* n/d in lowest terms; a zero denominator gives inf, -inf or NaN.
Norm(n, d) ==
    IF d = 0 THEN <<Sign(n), 0>>
    ELSE LET g == GCD(Abs(n), Abs(d))
             s == Sign(d)
         IN  <<(s * n) \div g, (s * d) \div g>>

NaN == <<0, 0>>

Num(n) == <<n, 1>>

\* pd.isna
isna(x) == x = NaN

IsInf(x) == x[2] = 0 /\ x[1] # 0

Add(a, b) == Norm(a[1] * b[2] + b[1] * a[2], a[2] * b[2])

Sub(a, b) == Norm(a[1] * b[2] - b[1] * a[2], a[2] * b[2])

Mul(a, b) == Norm(a[1] * b[1], a[2] * b[2])

Div(a, b) == Norm(a[1] * b[2], a[2] * b[1])

\* a > b; False when either side is NaN.
Gt(a, b) == a[1] * b[2] > b[1] * a[2]

\* a <= b; False when either side is NaN.
Le(a, b) == ~isna(a) /\ ~isna(b) /\ a[1] * b[2] <= b[1] * a[2]

\* Python's max(0, x): x when x > 0, else the first argument.
Max0(x) == IF Gt(x, Num(0)) THEN x ELSE Num(0)

\* Python's min(1.0, x): x when x < 1.0, else the first argument.
Min1(x) == IF Gt(Num(1), x) THEN x ELSE Num(1)

(***************************************************************************)
(* DataFrames: the column labels, and the rows as tuples of cells in the   *)
(* order of the labels.  An optional value (None or an object) is a tuple  *)
(* of length 0 or 1.                                                       *)
(***************************************************************************)
None == <<>>

Some(x) == <<x>>

DataFrame(cols, rows) == [columns |-> cols, rows |-> rows]

len(df) == Len(df.rows)

\* label in df.columns
HasColumn(df, c) == \E k \in 1..Len(df.columns) : df.columns[k] = c

ColIndex(df, c) == CHOOSE k \in 1..Len(df.columns) : df.columns[k] = c

\* df.iloc[i][c]
Cell(df, i, c) == df.rows[i][ColIndex(df, c)]

\* df.loc[i, c] = v
SetCell(df, i, c, v) == [df EXCEPT !.rows[i][ColIndex(df, c)] = v]

\* df[c] = vals: the column is replaced when it exists and appended when not.
SetColumn(df, c, vals) ==
    IF HasColumn(df, c)
    THEN [df EXCEPT !.rows = [i \in 1..len(df) |->
                                [df.rows[i] EXCEPT ![ColIndex(df, c)] = vals[i]]]]
    ELSE DataFrame(Append(df.columns, c),
                   [i \in 1..len(df) |-> Append(df.rows[i], vals[i])])

\* df[c] as a tuple of cells
Column(df, c) == [i \in 1..len(df) |-> Cell(df, i, c)]

(***************************************************************************)
(* read_excel_data: the labels of the sheet are lower-cased and stripped.  *)
(* The label written 'ya<s-cedilla>' in the source (y, a, U+015F) is the   *)
(* string "yas-cedilla" here: a module holds ASCII only.                   *)
(***************************************************************************)
yas_cedilla == "yas-cedilla"

\* str.lower().str.strip() on the labels the model's sheets carry.
LowerStrip(label) ==
    CASE label = "Age" -> "age"
      [] label = " Q(x) " -> "q(x)"
      [] label = "Survivors" -> "survivors"
      [] label = "Deaths " -> "deaths"
      [] label = "QX" -> "qx"
      [] OTHER -> label

\* self.data after pd.read_excel returned `sheet`.
Normalized(sheet) ==
    DataFrame([k \in 1..Len(sheet.columns) |-> LowerStrip(sheet.columns[k])],
              sheet.rows)

(***************************************************************************)
(* validate_columns                                                        *)
(***************************************************************************)
\* column_mapping, in the order the dictionary is written.
StandardColumns == <<yas_cedilla, "lx", "qx", "dx">>

Alternatives(standard_col) ==
    CASE standard_col = yas_cedilla -> <<"yas", "age", yas_cedilla, "x">>
      [] standard_col = "lx" -> <<"lx", "l(x)", "survivors">>
      [] standard_col = "qx" -> <<"qx", "q(x)", "mortality_rate">>
      [] standard_col = "dx" -> <<"dx", "d(x)", "deaths">>

\* found: some alternative is a label of the frame.
Found(df, standard_col) ==
    \E k \in 1..Len(Alternatives(standard_col)) :
        HasColumn(df, Alternatives(standard_col)[k])

\* mapped_columns[standard_col]: the first alternative that is a label.
MappedColumn(df, standard_col) ==
    LET alts == Alternatives(standard_col)
        k == CHOOSE j \in 1..Len(alts) :
                 /\ HasColumn(df, alts[j])
                 /\ \A h \in 1..(j - 1) : ~HasColumn(df, alts[h])
    IN  alts[k]

\* rename(columns=rename_dict): every column carrying a mapped label takes
\* the standard name, the others keep theirs.
Rename(df) ==
    LET new(label) ==
            IF \E s \in 1..Len(StandardColumns) :
                   /\ Found(df, StandardColumns[s])
                   /\ MappedColumn(df, StandardColumns[s]) = label
            THEN StandardColumns[CHOOSE s \in 1..Len(StandardColumns) :
                   /\ Found(df, StandardColumns[s])
                   /\ MappedColumn(df, StandardColumns[s]) = label]
            ELSE label
    IN  [df EXCEPT !.columns = [k \in 1..Len(df.columns) |-> new(df.columns[k])]]

\* The value returned, and self.data as the call leaves it: the two early
\* returns come before the rename.
validate_columns(df) ==
    IF ~Found(df, yas_cedilla) THEN [ok |-> FALSE, data |-> df]
    ELSE IF ~Found(df, "qx") THEN [ok |-> FALSE, data |-> df]
    ELSE [ok |-> TRUE, data |-> Rename(df)]

(***************************************************************************)
(* df.sort_values(age).reset_index(drop=True)                              *)
(***************************************************************************)
\* sort_values raises ValueError when the label names more than one column.
LabelCount(df, c) == Cardinality({k \in 1..Len(df.columns) : df.columns[k] = c})

\* Ascending, NaN last.
AgeLe(a, b) == isna(b) \/ Le(a, b)

\* The row orders sort_values may return: the permutations that put the
\* ages in ascending order (rows of equal age in either order: the default
\* quicksort is not stable).
SortOrders(df) ==
    LET n == len(df)
        ages == [i \in 1..n |-> df.rows[i][ColIndex(df, yas_cedilla)]]
    IN  {p \in Permutations(1..n) :
            \A i \in 1..(n - 1) : AgeLe(ages[p[i]], ages[p[i + 1]])}

\* A variant of sort_values: the frame is left in the order it was read.
sort_values_Unsorted(df, order) == df

sort_values(df, order) == [df EXCEPT !.rows = [i \in 1..len(df) |-> df.rows[order[i]]]]

\* if 'lx' not in df.columns: df['lx'] = np.nan  (and the same for dx)
WithColumn(df, c) ==
    IF HasColumn(df, c) THEN df ELSE SetColumn(df, c, [i \in 1..len(df) |-> NaN])

(***************************************************************************)
(* _complete_calculations                                                  *)
(***************************************************************************)
\* df.loc[0, 'lx'] = radix when the first lx is absent
SetRadix(df, radix) ==
    IF isna(Cell(df, 1, "lx")) THEN SetCell(df, 1, "lx", Num(radix)) ELSE df

\* A variant of StepLx: the previous row's deaths are added, not subtracted.
StepLx_Adds(df, i) ==
    IF /\ i > 1
       /\ isna(Cell(df, i, "lx"))
       /\ ~isna(Cell(df, i - 1, "lx"))
       /\ ~isna(Cell(df, i - 1, "dx"))
    THEN SetCell(df, i, "lx", Max0(Add(Cell(df, i - 1, "lx"), Cell(df, i - 1, "dx"))))
    ELSE df

\* lx from the previous row's lx and dx
StepLx(df, i) ==
    IF /\ i > 1
       /\ isna(Cell(df, i, "lx"))
       /\ ~isna(Cell(df, i - 1, "lx"))
       /\ ~isna(Cell(df, i - 1, "dx"))
    THEN SetCell(df, i, "lx", Max0(Sub(Cell(df, i - 1, "lx"), Cell(df, i - 1, "dx"))))
    ELSE df

\* dx = lx * qx
StepDx(df, i) ==
    IF /\ isna(Cell(df, i, "dx"))
       /\ ~isna(Cell(df, i, "qx"))
       /\ ~isna(Cell(df, i, "lx"))
    THEN SetCell(df, i, "dx", Mul(Cell(df, i, "lx"), Cell(df, i, "qx")))
    ELSE df

\* A variant of StepQx: the quotient is taken the wrong way round, lx / dx.
StepQx_Inverted(df, i) ==
    IF /\ isna(Cell(df, i, "qx"))
       /\ ~isna(Cell(df, i, "dx"))
       /\ ~isna(Cell(df, i, "lx"))
    THEN IF Gt(Cell(df, i, "lx"), Num(0))
         THEN SetCell(df, i, "qx", Min1(Div(Cell(df, i, "lx"), Cell(df, i, "dx"))))
         ELSE SetCell(df, i, "qx", Num(0))
    ELSE df

\* qx = min(1.0, dx / lx), or 0.0 when lx is not positive
StepQx(df, i) ==
    IF /\ isna(Cell(df, i, "qx"))
       /\ ~isna(Cell(df, i, "dx"))
       /\ ~isna(Cell(df, i, "lx"))
    THEN IF Gt(Cell(df, i, "lx"), Num(0))
         THEN SetCell(df, i, "qx", Min1(Div(Cell(df, i, "dx"), Cell(df, i, "lx"))))
         ELSE SetCell(df, i, "qx", Num(0))
    ELSE df

\* A variant of the first loop: dx and qx are computed before the row's lx.
RECURSIVE FirstPassFrom_LxLast(_, _)
FirstPassFrom_LxLast(df, i) ==
    IF i > len(df) THEN df
    ELSE FirstPassFrom_LxLast(StepLx(StepQx(StepDx(df, i), i), i), i + 1)

\* The first loop, from row i on.
RECURSIVE FirstPassFrom(_, _)
FirstPassFrom(df, i) ==
    IF i > len(df) THEN df
    ELSE FirstPassFrom(StepQx(StepDx(StepLx(df, i), i), i), i + 1)

\* The frame when the first loop ends.
FirstPass(df, radix) == FirstPassFrom(SetRadix(df, radix), 1)

\* lx from the previous row's lx and qx
StepLxFromQx(df, i) ==
    IF /\ isna(Cell(df, i, "lx"))
       /\ ~isna(Cell(df, i - 1, "lx"))
       /\ ~isna(Cell(df, i - 1, "qx"))
    THEN SetCell(df, i, "lx",
                 Max0(Mul(Cell(df, i - 1, "lx"), Sub(Num(1), Cell(df, i - 1, "qx")))))
    ELSE df

\* The second loop, from row i on.
RECURSIVE SecondPassFrom(_, _)
SecondPassFrom(df, i) ==
    IF i > len(df) THEN df ELSE SecondPassFrom(StepLxFromQx(df, i), i + 1)

SecondPass(df) == SecondPassFrom(df, 2)

\* The frame returned (df), with the frame the first loop left (first).
_complete_calculations(df, radix) ==
    LET first == FirstPass(df, radix)
    IN  [first |-> first, df |-> SecondPass(first)]

(***************************************************************************)
(* _add_life_table_functions                                               *)
(***************************************************************************)
Reverse(s) == [i \in 1..Len(s) |-> s[Len(s) + 1 - i]]

\* The sum of the cells of s[1..k] that are not NaN.
RECURSIVE SumSkipNa(_, _)
SumSkipNa(s, k) ==
    IF k = 0 THEN Num(0)
    ELSE IF isna(s[k]) THEN SumSkipNa(s, k - 1)
    ELSE Add(SumSkipNa(s, k - 1), s[k])

\* Series.cumsum() (skipna=True): NaN where the cell is NaN, and elsewhere
\* the running sum of the cells that are not.
cumsum(s) == [k \in 1..Len(s) |-> IF isna(s[k]) THEN NaN ELSE SumSkipNa(s, k)]

\* px, Lx, Tx and ex as computed, before the frame is cleaned.
LifeTableColumns(df) ==
    LET n == len(df)
        withPx == SetColumn(df, "px", [i \in 1..n |-> Sub(Num(1), Cell(df, i, "qx"))])
        withLx == SetColumn(withPx, "Lx",
                      [i \in 1..n |-> Sub(Cell(withPx, i, "lx"),
                                          Div(Cell(withPx, i, "dx"), Num(2)))])
        withTx == SetColumn(withLx, "Tx", Reverse(cumsum(Reverse(Column(withLx, "Lx")))))
    IN  SetColumn(withTx, "ex",
            [i \in 1..n |-> IF Gt(Cell(withTx, i, "lx"), Num(0))
                            THEN Div(Cell(withTx, i, "Tx"), Cell(withTx, i, "lx"))
                            ELSE Num(0)])

MapCells(df, f(_)) ==
    [df EXCEPT !.rows = [i \in 1..len(df) |->
                           [k \in 1..Len(df.columns) |-> f(df.rows[i][k])]]]

\* df.replace([np.inf, -np.inf], np.nan)
ReplaceInf(x) == IF IsInf(x) THEN NaN ELSE x

\* A variant of FillNa: the frame fillna returns is dropped.
FillNa_Dropped(x) == x

\* df.fillna(0)
FillNa(x) == IF isna(x) THEN Num(0) ELSE x

\* The frame returned (df), with the frame as it was before the cleanup
\* (derived).  No step of the try block raises on numeric cells, so the
\* except branch is not modelled.
_add_life_table_functions(df) ==
    LET derived == LifeTableColumns(df)
    IN  [derived |-> derived, df |-> MapCells(MapCells(derived, ReplaceInf), FillNa)]

(***************************************************************************)
(* display_table and save_to_excel: the formatting of the table.           *)
(***************************************************************************)
\* display_table's default head, which main passes too.
head == 10

\* round(6)
decimals == 6

RECURSIVE Pow10(_)
Pow10(k) == IF k = 0 THEN 1 ELSE 10 * Pow10(k - 1)

\* The integer nearest to a finite x, a tie going to the even one.
RoundHalfEven(x) ==
    LET f == x[1] \div x[2]
        r == 2 * (x[1] - f * x[2])
    IN  IF r < x[2] THEN f
        ELSE IF r > x[2] THEN f + 1
        ELSE IF f % 2 = 0 THEN f ELSE f + 1

\* .astype(float).round().astype(int)
RoundInt(x) == Num(RoundHalfEven(x))

\* .astype(float).round(6)
Round6(x) == Norm(RoundHalfEven(Mul(x, Num(Pow10(decimals)))), Pow10(decimals))

\* The two formatting loops, over the columns the frame has.
Formatted(df) ==
    [df EXCEPT !.rows = [i \in 1..len(df) |-> [k \in 1..Len(df.columns) |->
        IF df.columns[k] \in {"lx", "dx", "Lx", "Tx"} THEN RoundInt(df.rows[i][k])
        ELSE IF df.columns[k] \in {"qx", "px", "ex"} THEN Round6(df.rows[i][k])
        ELSE df.rows[i][k]]]]

\* df.head(n)
HeadRows(df, n) == [df EXCEPT !.rows = SubSeq(df.rows, 1, IF len(df) < n THEN len(df) ELSE n)]

(***************************************************************************)
(* The sheets read.                                                        *)
(*                                                                         *)
(* The engine is fed every sheet of up to MaxRows rows over the standard   *)
(* labels whose cells are absent or in domain, in ascending or descending  *)
(* age order, and the same sheet without an lx or dx column when the       *)
(* column holds no value.                                                  *)
(*                                                                         *)
(* LabelSheets vary the labels: sheets of 0 to 2 rows, in descending age   *)
(* order, every cell that is not an age holding the same value.            *)
(***************************************************************************)
\* The radix a caller passes: a positive integer.
Radixes == {1, 2}

QxCells == {NaN, Norm(1, 2), Num(1)}

LxCells == {NaN, Num(2)}

DxCells == {NaN, Num(1)}

\* The sheet of n rows with the qx, lx and dx cells q, l and d, its ages
\* ascending or descending, without the columns in `drop`.
CoreSheet(n, q, l, d, asc, drop) ==
    LET keep == SelectSeq(<<yas_cedilla, "qx", "lx", "dx">>, LAMBDA c : c \notin drop)
        cell(i, c) ==
            CASE c = yas_cedilla -> Num(IF asc THEN i - 1 ELSE n - i)
              [] c = "qx" -> q[i]
              [] c = "lx" -> l[i]
              [] c = "dx" -> d[i]
    IN  DataFrame(keep, [i \in 1..n |-> [k \in 1..Len(keep) |-> cell(i, keep[k])]])

\* The optional columns that may be left out: those without a value.
Droppable(n, l, d) ==
    {D \in SUBSET {"lx", "dx"} :
        /\ "lx" \in D => \A i \in 1..n : isna(l[i])
        /\ "dx" \in D => \A i \in 1..n : isna(d[i])}

LabelHeaders ==
    {<<yas_cedilla, "qx">>,
     <<"Age", " Q(x) ", "Survivors">>,
     <<"x", "mortality_rate", "lx", "Deaths ">>,
     <<"yas", "QX", "l(x)", "d(x)", "note">>,
     <<"yas", "dx">>,
     <<"qx", "lx">>,
     <<"note", "lx">>,
     <<"age", yas_cedilla, "qx">>}

AgeLabels == {"yas", "age", "Age", yas_cedilla, "x"}

LabelSheets ==
    {DataFrame(h, [i \in 1..n |-> [k \in 1..Len(h) |->
                      IF h[k] \in AgeLabels THEN Num(n - i) ELSE c]]) :
        h \in LabelHeaders, n \in 0..2, c \in QxCells}

(***************************************************************************)
(* The generator.  data and mortality_table are its two fields; ret is     *)
(* what the last call returned or emitted, and call records the frames the *)
(* last create_mortality_table went through.                               *)
(***************************************************************************)
Returned(op, result, value) == [op |-> op, result |-> result, value |-> value]

NoCall ==
    [radix |-> 0, before |-> None, sorted |-> None, pass1 |-> None,
     completed |-> None, derived |-> None]

Init ==
    /\ data = None
    /\ mortality_table = None
    /\ ret = Returned("__init__", "none", None)
    /\ call = NoCall

\* pd.read_excel returned `sheet`.
read_excel_data(sheet) ==
    /\ data' = Some(Normalized(sheet))
    /\ ret' = Returned("read_excel_data", "ok", data')
    /\ call' = NoCall
    /\ UNCHANGED mortality_table

\* pd.read_excel raised: the except branch returns None.
read_excel_data_error ==
    /\ ret' = Returned("read_excel_data", "none", None)
    /\ call' = NoCall
    /\ UNCHANGED <<data, mortality_table>>

\* What a call that leaves self.data = d without a table does: it returns
\* None, or an exception leaves it ("raised"); self.mortality_table is not
\* assigned.
NoTable(d, result, seen) ==
    [data |-> d, assigns |-> FALSE, table |-> None, result |-> result, call |-> seen]

\* What a call on self.data = d may do: self.data as it leaves it, whether
\* it assigns self.mortality_table and to what, what it returns, and the
\* frames it went through.  There is one outcome for each order in which
\* sort_values may return the rows.
CreateOutcomes(d, radix) ==
    IF d = None
    THEN {NoTable(d, "none", [NoCall EXCEPT !.radix = radix])}
    ELSE
    LET v == validate_columns(d[1])
        seen == [NoCall EXCEPT !.radix = radix, !.before = d]
    IN  IF ~v.ok
        THEN {NoTable(Some(v.data), "none", seen)}
        ELSE IF LabelCount(v.data, yas_cedilla) # 1
        THEN \* sort_values: ValueError, the label is not unique
             {NoTable(Some(v.data), "raised", seen)}
        ELSE
        {LET df == WithColumn(WithColumn(sort_values(v.data, order), "lx"), "dx")
         IN  IF len(df) = 0
             THEN \* _complete_calculations: df.iloc[0] raises IndexError
                  NoTable(Some(v.data), "raised", [seen EXCEPT !.sorted = Some(df)])
             ELSE
             LET completed == _complete_calculations(df, radix)
                 table == _add_life_table_functions(completed.df)
             IN  [data |-> Some(v.data), assigns |-> TRUE, table |-> Some(table.df),
                  result |-> "ok",
                  call |-> [seen EXCEPT !.sorted = Some(df),
                                        !.pass1 = Some(completed.first),
                                        !.completed = Some(completed.df),
                                        !.derived = Some(table.derived)]]
         : order \in SortOrders(v.data)}

create_mortality_table(radix) ==
    \E o \in CreateOutcomes(data, radix) :
        /\ data' = o.data
        /\ mortality_table' = IF o.assigns THEN o.table ELSE mortality_table
        /\ ret' = Returned("create_mortality_table", o.result, o.table)
        /\ call' = o.call

\* What display_table prints: nothing when no table is stored.
display_table ==
    /\ ret' = IF mortality_table = None
              THEN Returned("display_table", "none", None)
              ELSE Returned("display_table", "ok",
                            Some(Formatted(HeadRows(mortality_table[1], head))))
    /\ call' = NoCall
    /\ UNCHANGED <<data, mortality_table>>

\* The main sheet save_to_excel writes (the summary sheet, computed from the
\* same stored table, is left out); it returns False when no table is stored.
save_to_excel ==
    /\ ret' = IF mortality_table = None
              THEN Returned("save_to_excel", "none", None)
              ELSE Returned("save_to_excel", "ok", Some(Formatted(mortality_table[1])))
    /\ call' = NoCall
    /\ UNCHANGED <<data, mortality_table>>

\* One generator over its life: sheets are read and tables made in any order.
Next ==
    \/ \E sheet \in LabelSheets : read_excel_data(sheet)
    \/ read_excel_data_error
    \/ \E radix \in Radixes : create_mortality_table(radix)
    \/ display_table
    \/ save_to_excel

Spec == Init /\ [][Next]_vars

\* The engine: a generator that has read one sheet makes its table.
InitEngine ==
    /\ \E n \in 0..MaxRows :
        \E q \in [1..n -> QxCells], l \in [1..n -> LxCells], d \in [1..n -> DxCells] :
            \E asc \in (IF n > 1 THEN BOOLEAN ELSE {TRUE}), drop \in Droppable(n, l, d) :
                data = Some(Normalized(CoreSheet(n, q, l, d, asc, drop)))
    /\ mortality_table = None
    /\ ret = Returned("read_excel_data", "ok", data)
    /\ call = NoCall

\* The table is made once.
NextEngine == call = NoCall /\ \E radix \in Radixes : create_mortality_table(radix)

SpecEngine == InitEngine /\ [][NextEngine]_vars

(***************************************************************************)
(* Reading the last create_mortality_table call.                           *)
(***************************************************************************)
Called == ret.op = "create_mortality_table"

\* The call returned a table.
Made == Called /\ ret.result = "ok"

\* The table returned.
Out == ret.value[1]

\* The frame handed to _complete_calculations: sorted, lx and dx columns added.
Sorted == call.sorted[1]

\* The frame handed to _add_life_table_functions.
Completed == call.completed[1]

Rows(df) == 1..len(df)

Present(df, i, c) == ~isna(Cell(df, i, c))

\* Every supplied cell is in domain: lx >= 0, dx >= 0, 0 <= qx <= 1.
InDomain(df) ==
    \A i \in Rows(df) :
        /\ Present(df, i, "lx") => Le(Num(0), Cell(df, i, "lx"))
        /\ Present(df, i, "dx") => Le(Num(0), Cell(df, i, "dx"))
        /\ Present(df, i, "qx") => Le(Num(0), Cell(df, i, "qx")) /\ Le(Cell(df, i, "qx"), Num(1))

Lt(a, b) == Le(a, b) /\ a # b

(***************************************************************************)
(* C1 as claimed: in the table create_mortality_table returns for an       *)
(* in-domain input and a positive radix, lx[i+1] <= lx[i] for every pair   *)
(* of consecutive rows.                                                    *)
(***************************************************************************)
C1_LxNonIncreasing ==
    (Made /\ InDomain(Sorted) /\ call.radix > 0) =>
        \A i \in Rows(Out) \ {len(Out)} : Le(Cell(Out, i + 1, "lx"), Cell(Out, i, "lx"))

(***************************************************************************)
(* C1 as amended: in the returned table, lx[i+1] <= lx[i] for every pair   *)
(* of consecutive rows whose later lx cell was absent in the input (the    *)
(* completer derived it, or the cleanup zero-filled it); a supplied lx     *)
(* cell is returned as supplied, even when it exceeds its predecessor.     *)
(***************************************************************************)
C1_DerivedLxNonIncreasing ==
    (Made /\ InDomain(Sorted) /\ call.radix > 0) =>
        \A i \in Rows(Out) \ {len(Out)} :
            ~Present(Sorted, i + 1, "lx") =>
                Le(Cell(Out, i + 1, "lx"), Cell(Out, i, "lx"))

\* A row whose lx the completer derived, positive and strictly below its
\* predecessor's.
C1_Witness ==
    /\ Made /\ InDomain(Sorted) /\ call.radix > 0
    /\ \E i \in Rows(Out) \ {len(Out)} :
        /\ ~Present(Sorted, i + 1, "lx")
        /\ Present(Completed, i + 1, "lx")
        /\ Lt(Num(0), Cell(Out, i + 1, "lx"))
        /\ Lt(Cell(Out, i + 1, "lx"), Cell(Out, i, "lx"))

(***************************************************************************)
(* C2: every row of the returned table has 0 <= qx <= 1, 0 <= px <= 1 and  *)
(* px + qx = 1, rows whose qx was still absent before the cleanup          *)
(* included.                                                               *)
(***************************************************************************)
C2_Bounds ==
    (Made /\ InDomain(Sorted) /\ call.radix > 0) =>
        \A i \in Rows(Out) :
            /\ Le(Num(0), Cell(Out, i, "qx")) /\ Le(Cell(Out, i, "qx"), Num(1))
            /\ Le(Num(0), Cell(Out, i, "px")) /\ Le(Cell(Out, i, "px"), Num(1))
            /\ Add(Cell(Out, i, "px"), Cell(Out, i, "qx")) = Num(1)

(***************************************************************************)
(* C3: in the returned table Tx is the reverse cumulative sum of Lx:       *)
(* Tx[last] = Lx[last] and Tx[i] = Lx[i] + Tx[i+1] for every i < last,     *)
(* also when some lx or dx was absent when the calculator ran.             *)
(***************************************************************************)
C3_ReverseSum ==
    Made =>
        /\ Cell(Out, len(Out), "Tx") = Cell(Out, len(Out), "Lx")
        /\ \A i \in Rows(Out) \ {len(Out)} :
            Cell(Out, i, "Tx") = Add(Cell(Out, i, "Lx"), Cell(Out, i + 1, "Tx"))

(***************************************************************************)
(* C4: the calculator applied to its own output returns that output:       *)
(* f(f(T)) = f(T) in every field, for every table T handed to it.          *)
(***************************************************************************)
C4_Idempotent == Made => _add_life_table_functions(Out).df = Out

(***************************************************************************)
(* C5: when the input supplies only ages and qx (every qx present, in      *)
(* [0, 1]; no lx or dx cell) and radix is positive, the returned table is  *)
(* in ascending age order whatever the input order, each input row keeps   *)
(* its qx, lx[first] = radix, dx[i] = lx[i] * qx[i] for every row and      *)
(* lx[i+1] = lx[i] - dx[i] for every row but the last.                     *)
(***************************************************************************)
QxOnly(df) ==
    /\ InDomain(df)
    /\ \A i \in Rows(df) :
        Present(df, i, "qx") /\ ~Present(df, i, "lx") /\ ~Present(df, i, "dx")

C5_QxOnlyCompletion ==
    (Made /\ QxOnly(Sorted) /\ call.radix > 0) =>
        /\ \A i \in Rows(Out) \ {len(Out)} :
            /\ Lt(Cell(Out, i, yas_cedilla), Cell(Out, i + 1, yas_cedilla))
            /\ Cell(Out, i + 1, "lx") = Sub(Cell(Out, i, "lx"), Cell(Out, i, "dx"))
        /\ \A k \in Rows(call.before[1]) : \E i \in Rows(Out) :
            /\ Cell(Out, i, yas_cedilla) = Cell(call.before[1], k, yas_cedilla)
            /\ Cell(Out, i, "qx") = Cell(call.before[1], k, "qx")
        /\ Cell(Out, 1, "lx") = Num(call.radix)
        /\ \A i \in Rows(Out) : Cell(Out, i, "dx") = Mul(Cell(Out, i, "lx"), Cell(Out, i, "qx"))

\* A qx-only sheet of three rows or more, read in descending age order, whose
\* survivors fall by half and then to zero.
C5_Witness ==
    /\ Made /\ QxOnly(Sorted) /\ call.radix > 1
    /\ len(Out) >= 3
    /\ Lt(Cell(call.before[1], 2, yas_cedilla), Cell(call.before[1], 1, yas_cedilla))
    /\ Cell(Out, 1, "qx") = Norm(1, 2)
    /\ Cell(Out, 2, "qx") = Num(1)
    /\ Cell(Out, 3, "lx") = Num(0)

(***************************************************************************)
(* C6 as claimed: in the returned table, every row in which the completer  *)
(* filled dx or qx and whose lx and dx are both non-zero has               *)
(* dx = lx * qx, rows whose qx came from min(1.0, dx / lx) included.       *)
(***************************************************************************)
Filled(i, c) == ~Present(Sorted, i, c) /\ Present(Completed, i, c)

C6_Consistency ==
    Made =>
        \A i \in Rows(Out) :
            ( /\ Filled(i, "dx") \/ Filled(i, "qx")
              /\ Cell(Out, i, "lx") # Num(0)
              /\ Cell(Out, i, "dx") # Num(0) ) =>
                Cell(Out, i, "dx") = Mul(Cell(Out, i, "lx"), Cell(Out, i, "qx"))

(***************************************************************************)
(* C6 as amended: in the returned table, every row in which the completer  *)
(* filled dx or qx and whose lx and dx satisfy 0 < dx <= lx has            *)
(* dx = lx * qx; where a supplied dx exceeds lx, the derived qx is clamped *)
(* to 1 and dx differs from lx * qx.                                       *)
(***************************************************************************)
C6_ConsistencyUnclamped ==
    Made =>
        \A i \in Rows(Out) :
            ( /\ Filled(i, "dx") \/ Filled(i, "qx")
              /\ Lt(Num(0), Cell(Out, i, "dx"))
              /\ Le(Cell(Out, i, "dx"), Cell(Out, i, "lx")) ) =>
                Cell(Out, i, "dx") = Mul(Cell(Out, i, "lx"), Cell(Out, i, "qx"))

\* A row whose qx the completer derived from a supplied dx below its lx, and
\* a row whose dx it derived.
C6_Witness ==
    /\ Made
    /\ \E i \in Rows(Out) :
        /\ Filled(i, "qx")
        /\ Lt(Num(0), Cell(Out, i, "dx"))
        /\ Lt(Cell(Out, i, "dx"), Cell(Out, i, "lx"))
        /\ Lt(Cell(Out, i, "qx"), Num(1))
    /\ \E i \in Rows(Out) : Filled(i, "dx") /\ Lt(Num(0), Cell(Out, i, "dx"))

(***************************************************************************)
(* C7: with data loaded, create_mortality_table fails exactly when no      *)
(* label matches an age synonym or none matches a qx synonym; a missing lx *)
(* or dx column is created with every cell absent; and a failing call      *)
(* leaves the data as it was (no column renamed).                          *)
(***************************************************************************)
NoLabelAmong(df, labels) == \A c \in labels : ~HasColumn(df, c)

C7_FailsExactlyWhenColumnMissing ==
    (Called /\ call.before # None) =>
        LET before == call.before[1]
            missing == \/ NoLabelAmong(before, {"yas", "age", yas_cedilla, "x"})
                       \/ NoLabelAmong(before, {"qx", "q(x)", "mortality_rate"})
        IN  /\ ret.result # "ok" <=> missing
            /\ ret.result # "ok" => data = call.before /\ call.sorted = None
            /\ ret.result = "ok" =>
                /\ NoLabelAmong(before, {"lx", "l(x)", "survivors"}) =>
                       \A i \in Rows(Sorted) : ~Present(Sorted, i, "lx")
                /\ NoLabelAmong(before, {"dx", "d(x)", "deaths"}) =>
                       \A i \in Rows(Sorted) : ~Present(Sorted, i, "dx")

(***************************************************************************)
(* C8: every cell of lx, qx, dx, px, Lx, Tx and ex of the returned table   *)
(* is present and finite, a cell that was absent or infinite after the     *)
(* derivation is 0, and a row whose lx is 0 or was absent has ex = 0.      *)
(***************************************************************************)
TableColumns == {"lx", "qx", "dx", "px", "Lx", "Tx", "ex"}

C8_PopulatedFinite ==
    Made =>
        \A i \in Rows(Out) :
            /\ \A c \in TableColumns :
                /\ HasColumn(Out, c)
                /\ Present(Out, i, c) /\ ~IsInf(Cell(Out, i, c))
                /\ (isna(Cell(call.derived[1], i, c)) \/ IsInf(Cell(call.derived[1], i, c)))
                       => Cell(Out, i, c) = Num(0)
            /\ (~Present(Completed, i, "lx") \/ Cell(Out, i, "lx") = Num(0))
                   => Cell(Out, i, "ex") = Num(0)

\* A table with a row whose lx stayed absent, a row whose lx is a derived 0,
\* and a row with a positive life expectancy.
C8_Witness ==
    /\ Made
    /\ \E i \in Rows(Out) : ~Present(Completed, i, "lx")
    /\ \E i \in Rows(Out) : Present(Completed, i, "lx") /\ Cell(Out, i, "lx") = Num(0)
    /\ \E i \in Rows(Out) : Lt(Num(0), Cell(Out, i, "ex"))

(***************************************************************************)
(* C9: after each create_mortality_table call the stored mortality_table   *)
(* is the result of that call only: the table just returned when the call  *)
(* succeeds, no table when it fails.                                       *)
(***************************************************************************)
C9_StoredTableIsThisCalls == Called => mortality_table = ret.value

(***************************************************************************)
(* C10 as claimed: on a table with a chained gap (two consecutive rows     *)
(* with lx absent, their predecessors carrying qx but no dx) the second    *)
(* pass fills an lx cell the first pass left absent, so the completer's    *)
(* result differs from the first pass's.                                   *)
(***************************************************************************)
ChainedGap(df) ==
    \E i \in Rows(df) :
        /\ i > 1 /\ i < len(df)
        /\ \A j \in {i, i + 1} :
            /\ ~Present(df, j, "lx")
            /\ Present(df, j - 1, "qx")
            /\ ~Present(df, j - 1, "dx")

C10_SecondPassFillsChainedGap ==
    (Made /\ ChainedGap(Sorted)) => call.completed # call.pass1

(***************************************************************************)
(* C10 as amended: the second pass never changes a cell: on every table of *)
(* finite cells, chained gaps included, every lx it could fill was filled  *)
(* by the first pass (which derives dx, and from it the next lx, in the    *)
(* same loop), and the completer's result is the first pass's.             *)
(***************************************************************************)
C10_SecondPassChangesNothing == Made => call.completed = call.pass1

\* A chained gap that the completer has closed.
C10_Witness ==
    /\ Made /\ ChainedGap(Sorted)
    /\ \A i \in Rows(Sorted) : Present(Completed, i, "lx") /\ Lt(Num(0), Cell(Completed, i, "lx"))
====
